---- MODULE Spec2Model ----
(***************************************************************************)
(* A model of src/app.py of PuLID-FLUX: the process-wide FluxGenerator     *)
(* (the shared model handles and their offload policy) and the request     *)
(* handler generate_image, stepped stage by stage.                         *)
(*                                                                         *)
(* Tensors and embeddings are opaque to app.py; they are modelled as       *)
(* terms that record how they were produced (which seed, which prompt,     *)
(* which denoiser calls), so two values are equal in the model only when   *)
(* the program computed them by the same calls on the same arguments.      *)
(***************************************************************************)
EXTENDS Integers, Sequences, FiniteSets, TLC

\* ------------------------------------------------------------------ bounds

\* The largest num_steps a request may ask for (the UI slider allows 1..20).
MaxSteps == 2
\* torch.Generator.seed() draws from 0..2^64-1; the model draws from 0..MaxDraw.
MaxDraw == 1
\* The number of handler threads that may serve requests at once.
MaxInFlight == 2

\* ------------------------------------------------------------ basic values

\* Python's None; a value that may be None is <<>> when absent and <<v>> when
\* present, so that presence can always be tested by comparing sequences.
None == <<>>

Some(v) == <<v>>

CPU == "cpu"

CUDA == "cuda"

\* The outcome of int(seed) on a string that is no integer literal.
ValueError == [ok |-> FALSE, val |-> 0]

Reqs == 1..MaxInFlight

\* ------------------------------------------------ int(seed) and str(seed)

Digits == <<"0", "1", "2", "3", "4", "5", "6", "7", "8", "9">>

IsDigit(c) == \E d \in 1..10 : Digits[d] = c

DigitVal(c) == (CHOOSE d \in 1..10 : Digits[d] = c) - 1

RECURSIVE StripLeft(_)
StripLeft(s) ==
    IF s # <<>> /\ Head(s) = " " THEN StripLeft(Tail(s)) ELSE s

RECURSIVE StripRight(_)
StripRight(s) ==
    IF s # <<>> /\ s[Len(s)] = " " THEN StripRight(SubSeq(s, 1, Len(s) - 1)) ELSE s

RECURSIVE DigitsVal(_)
DigitsVal(s) ==
    IF s = <<>> THEN 0
    ELSE 10 * DigitsVal(SubSeq(s, 1, Len(s) - 1)) + DigitVal(s[Len(s)])

\* Python's int(str): surrounding blanks are dropped, one optional sign, then
\* at least one decimal digit and nothing else; anything else raises ValueError.
IntOf(s) ==
    LET t == StripRight(StripLeft(s))
        signed == t # <<>> /\ Head(t) \in {"-", "+"}
        body == IF signed THEN Tail(t) ELSE t
    IN  IF body = <<>> \/ \E k \in 1..Len(body) : ~IsDigit(body[k])
        THEN ValueError
        ELSE [ok |-> TRUE,
              val |-> IF signed /\ Head(t) = "-" THEN 0 - DigitsVal(body)
                      ELSE DigitsVal(body)]

RECURSIVE StrNat(_)
StrNat(n) ==
    IF n < 10 THEN <<Digits[n + 1]>>
    ELSE StrNat(n \div 10) \o <<Digits[(n % 10) + 1]>>

\* Python's str(int): the decimal digits, with a leading "-" when negative.
Str(n) == IF n < 0 THEN <<"-">> \o StrNat(0 - n) ELSE StrNat(n)

\* ------------------------------------------------- the shared model handles

\* load_t5(device, max_length=128)
T5MaxLength == 128

\* get_models(name, device, offload): the text encoders always load on the
\* device; the denoiser and the autoencoder load on the CPU under offload.
get_models(name, device, offload) ==
    [model |-> [device |-> IF offload THEN CPU ELSE device, training |-> FALSE],
     ae    |-> [encoder |-> IF offload THEN CPU ELSE device,
                decoder |-> IF offload THEN CPU ELSE device],
     t5    |-> [device |-> device, max_length |-> T5MaxLength],
     clip  |-> [device |-> device]]

\* PuLIDPipeline(model, 'cuda', ...) followed by load_pretrain(): the identity
\* extractor lives on the accelerator and starts with no debug images.
PuLIDPipeline(device) == [device |-> device, debug_img_list |-> <<>>]

\* FluxGenerator.__init__ with self.offload = offload. The source assigns
\* self.offload = False; the parameter lets a specification also construct
\* the generator the offload blocks of generate_image are written for.
FluxGenerator(offload) ==
    LET m == get_models("flux-dev", CUDA, offload)
    IN  [device      |-> CUDA,
         offload     |-> offload,
         model_name  |-> "flux-dev",
         model       |-> m.model,
         ae          |-> m.ae,
         t5          |-> m.t5,
         clip        |-> m.clip,
         pulid_model |-> PuLIDPipeline(CUDA)]

\* create_demo(args, model_name, device, offload): builds the UI and binds the
\* button to generate_image; its offload parameter is used nowhere in its
\* body, so the generator it leaves behind is the one it found.
create_demo(fg, a, model_name, device, offload) == fg

\* flux_generator.t5.max_length = max_sequence_length
SetMaxLength(fg, n) == [fg EXCEPT !.t5.max_length = n]

\* LoadTextEncoders with the relocation left out.
LoadTextEncodersSkipped(fg) == fg

\* if offload: t5, clip = t5.to(device), clip.to(device)
LoadTextEncoders(fg) ==
    IF fg.offload
    THEN [fg EXCEPT !.t5.device = fg.device, !.clip.device = fg.device]
    ELSE fg

\* if offload: t5, clip = t5.cpu(), clip.cpu(); model = model.to(device)
OffloadTextEncoders(fg) ==
    IF fg.offload
    THEN [fg EXCEPT !.t5.device = CPU, !.clip.device = CPU,
                    !.model.device = fg.device]
    ELSE fg

\* OffloadModel without the test of the offload flag.
OffloadModelAlways(fg, xdevice) ==
    [fg EXCEPT !.model.device = CPU, !.ae.decoder = xdevice]

\* if offload: model.cpu(); ae.decoder.to(x.device)
OffloadModel(fg, xdevice) ==
    IF fg.offload
    THEN [fg EXCEPT !.model.device = CPU, !.ae.decoder = xdevice]
    ELSE fg

\* if offload: ae.decoder.cpu()
OffloadDecoder(fg) ==
    IF fg.offload THEN [fg EXCEPT !.ae.decoder = CPU] ELSE fg

\* ------------------------------------------- the collaborators app.py calls

\* resize_numpy_image_long(id_image, 1024)
resize_numpy_image_long(image, long_edge) == <<"resized", image, long_edge>>

\* pulid_model.get_id_embedding(image, cal_uncond): the conditional embedding
\* of the image, an unconditional one only when cal_uncond, and the debug
\* images of this extraction left on the extractor.
get_id_embedding(pulid, image, cal_uncond) ==
    [pulid |-> [pulid EXCEPT !.debug_img_list = <<image>>],
     id    |-> Some(<<"id", image>>),
     uncond_id |-> IF cal_uncond THEN Some(<<"uncond_id", image>>) ELSE None]

\* get_noise(1, height, width, device, dtype, seed): a function of the seed
\* and the shape alone.
get_noise(height, width, device, seed) ==
    [device |-> device, shape |-> <<height, width>>, seed |-> seed,
     steps |-> <<>>]

\* get_schedule(num_steps, seq_len, shift=True): num_steps + 1 strictly
\* decreasing values; the value at position k is modelled by its rank.
get_schedule(num_steps) == [k \in 1..(num_steps + 1) |-> num_steps + 1 - k]

\* prepare(t5, clip, img, prompt): the conditioning bundle of a prompt, read
\* through the two text encoders as they are when it is called.
prepare(t5, clip, img, prompt) ==
    [img     |-> img,
     txt     |-> <<"t5", prompt, t5.max_length>>,
     txt_ids |-> <<"ids", prompt, t5.max_length>>,
     vec     |-> <<"clip", prompt>>]

\* The gate denoise applies to true_cfg (in thousandths, as UseTrueCfg below).
DenoiseTrueCfgActive(true_cfg) ==
    (IF true_cfg >= 1000 THEN true_cfg - 1000 ELSE 1000 - true_cfg) > 10

\* One evaluation of the denoiser: the identity embedding and its weight
\* reach the network only when the embedding is present.
ModelCall(txt, txt_ids, vec, t, guidance, id, id_weight) ==
    [txt |-> txt, txt_ids |-> txt_ids, vec |-> vec, t |-> t,
     guidance |-> guidance,
     id |-> IF id = None THEN None ELSE Some(<<id[1], id_weight>>)]

\* Iteration i (from 0) of the loop of denoise over the timestep pairs: the
\* positive evaluation, the negative one when true CFG is active at i, their
\* combination, and the Euler update of the latent.
DenoiseIteration(x, d, i) ==
    LET t_curr == d.timesteps[i + 1]
        t_prev == d.timesteps[i + 2]
        pos == ModelCall(d.txt, d.txt_ids, d.vec, t_curr, d.guidance,
                         IF i >= d.start_step THEN d.id ELSE None, d.id_weight)
        cfg == DenoiseTrueCfgActive(d.true_cfg) /\ i >= d.timestep_to_start_cfg
        neg == IF cfg
               THEN Some(ModelCall(d.neg_txt, d.neg_txt_ids, d.neg_vec, t_curr,
                                   d.guidance,
                                   IF i >= d.start_step THEN d.uncond_id ELSE None,
                                   d.id_weight))
               ELSE None
        pred == IF cfg
                THEN [kind |-> "true_cfg", pos |-> pos, neg |-> neg,
                      scale |-> d.true_cfg]
                ELSE [kind |-> "positive", pos |-> pos, neg |-> None,
                      scale |-> 0]
    IN  [x EXCEPT !.steps = Append(@, [i |-> i, t_curr |-> t_curr,
                                       t_prev |-> t_prev, pos |-> pos,
                                       neg |-> neg, pred |-> pred])]

\* unpack(x.float(), height, width) then ae.decode(x): a function of the
\* latent alone.
decode(x, height, width) == [decoded |-> x, size |-> <<height, width>>]

\* ------------------------------------------------------- request parameters

\* What the UI can send as the seed text: the sentinel, a value written with
\* a leading zero, and a text that is no integer.
SeedInputs == { <<"-", "1">>, <<"0", "7">>, <<"x">> }

\* true_cfg in thousandths: 0.990, 1.000, 1.010 and 1.011 (both ends of the
\* tolerance and the first value beyond it).
TrueCfgInputs == {990, 1000, 1010, 1011}

\* The parameter tuples generate_image is called with (width, height,
\* guidance and prompt at the UI's defaults).
Requests ==
    [width : {896}, height : {1152}, num_steps : 1..MaxSteps,
     start_step : 0..MaxSteps, guidance : {4}, seed : SeedInputs,
     prompt : {"portrait"}, id_image : {None, Some("A")},
     id_weight : {1, 2}, neg_prompt : {"", "bad quality"},
     true_cfg : TrueCfgInputs, timestep_to_start_cfg : 0..1,
     max_sequence_length : {128, 256}]

\* The requests used when several are in flight: the UI's defaults with a
\* fixed seed and no reference image.
DefaultRequests ==
    [width : {896}, height : {1152}, num_steps : {1},
     start_step : {0}, guidance : {4}, seed : {<<"0", "7">>},
     prompt : {"portrait"}, id_image : {None},
     id_weight : {1}, neg_prompt : {"bad quality"},
     true_cfg : {1000}, timestep_to_start_cfg : {1},
     max_sequence_length : {128}]

\* The requests used where the placement and the settings of the handles are
\* what is examined: every seed text, with and without a reference image,
\* both T5 lengths, every step count; the rest at the UI's defaults.
PlacementRequests ==
    [width : {896}, height : {1152}, num_steps : 1..MaxSteps,
     start_step : {0}, guidance : {4}, seed : SeedInputs,
     prompt : {"portrait"}, id_image : {None, Some("A")},
     id_weight : {1}, neg_prompt : {"bad quality"},
     true_cfg : {1000}, timestep_to_start_cfg : {1},
     max_sequence_length : {128, 256}]

\* --------------------------------------------------------------- the state

VARIABLES
    args,            \* the parsed command line (args.offload)
    flux_generator,  \* the module-level FluxGenerator: the shared handles
    limit,           \* how many requests the server lets run at once
    pc,              \* per handler thread: where generate_image stands
    params,          \* per handler thread: the parameters of its request
    opts,            \* per handler thread: its SamplingOptions
    loc,             \* per handler thread: the locals of generate_image
    resp,            \* per handler thread: the tuple generate_image returned
    hist,            \* per handler thread: what the request has called so far
    shadow           \* the handles as left by the requests that returned

vars == <<args, flux_generator, limit, pc, params, opts, loc, resp, hist, shadow>>

ParamsIdle ==
    [width |-> 896, height |-> 1152, num_steps |-> 1, start_step |-> 0,
     guidance |-> 4, seed |-> <<>>, prompt |-> "", id_image |-> None,
     id_weight |-> 1, neg_prompt |-> "", true_cfg |-> 1000,
     timestep_to_start_cfg |-> 1, max_sequence_length |-> 128]

OptsIdle ==
    [prompt |-> "", width |-> 0, height |-> 0, num_steps |-> 0,
     guidance |-> 0, seed |-> 0]

LocIdle ==
    [use_true_cfg |-> FALSE, id_embeddings |-> None,
     uncond_id_embeddings |-> None, x |-> None, timesteps |-> <<>>,
     inp |-> None, inp_neg |-> None, i |-> 0]

RespIdle == [img |-> None, seed |-> <<>>, debug |-> <<>>]

\* drawn: the value torch.Generator.seed() returned, when it was called;
\* get_noise: the seeds get_noise was called with; cal_uncond: the flags
\* get_id_embedding was called with; prepared: the prompts prepare was called
\* with; relocs: the offload blocks that ran; produced: the debug images the
\* extractor produced for this request.
HistIdle ==
    [drawn |-> None, get_noise |-> <<>>, cal_uncond |-> <<>>,
     prepared |-> <<>>, relocs |-> {}, produced |-> <<>>]

\* ---------------------------------------------------------- generate_image

\* ResolveSeed without the draw: the sentinel itself becomes the seed.
ResolveSeedNoDraw(seed, drawn) == seed

\* seed = int(seed); if seed == -1: seed = None; ...; if opts.seed is None:
\* opts.seed = torch.Generator(device="cpu").seed()   (drawn is that value)
ResolveSeed(seed, drawn) ==
    LET s == IF seed = 0 - 1 THEN None ELSE Some(seed)
    IN  IF s = None THEN drawn ELSE s[1]

\* UseTrueCfg with the tolerance excluded: >= in place of >.
UseTrueCfgInclusive(true_cfg) ==
    (IF true_cfg - 1000 >= 0 THEN true_cfg - 1000 ELSE 0 - (true_cfg - 1000)) >= 10

\* use_true_cfg = abs(true_cfg - 1.0) > 1e-2, with true_cfg in thousandths
UseTrueCfg(true_cfg) ==
    (IF true_cfg - 1000 >= 0 THEN true_cfg - 1000 ELSE 0 - (true_cfg - 1000)) > 10

\* IdEmbeddings with the extractor run on a placeholder image when the request
\* has none.
IdEmbeddingsAlways(fg, id_image, use_true_cfg) ==
    LET e == get_id_embedding(fg.pulid_model,
                              resize_numpy_image_long(
                                  IF id_image # None THEN id_image[1] ELSE "blank",
                                  1024),
                              use_true_cfg)
    IN  [fg |-> [fg EXCEPT !.pulid_model = e.pulid],
         id_embeddings |-> e.id, uncond_id_embeddings |-> e.uncond_id,
         calls |-> <<use_true_cfg>>,
         produced |-> e.pulid.debug_img_list]

\* if id_image is not None: resize, get_id_embedding(id_image,
\* cal_uncond=use_true_cfg); else both embeddings are None. calls lists the
\* cal_uncond flags the extractor was invoked with.
IdEmbeddings(fg, id_image, use_true_cfg) ==
    IF id_image # None
    THEN LET e == get_id_embedding(fg.pulid_model,
                                   resize_numpy_image_long(id_image[1], 1024),
                                   use_true_cfg)
         IN  [fg |-> [fg EXCEPT !.pulid_model = e.pulid],
              id_embeddings |-> e.id, uncond_id_embeddings |-> e.uncond_id,
              calls |-> <<use_true_cfg>>,
              produced |-> e.pulid.debug_img_list]
    ELSE [fg |-> fg, id_embeddings |-> None, uncond_id_embeddings |-> None,
          calls |-> <<>>, produced |-> <<>>]

\* DenoiseArgs with start_step not passed on (denoise's default, 0, applies).
DenoiseArgsNoStartStep(l, a, o) ==
    [img |-> l.inp[1].img, txt |-> l.inp[1].txt, txt_ids |-> l.inp[1].txt_ids,
     vec |-> l.inp[1].vec, timesteps |-> l.timesteps, guidance |-> o.guidance,
     id |-> l.id_embeddings, id_weight |-> a.id_weight,
     start_step |-> 0, uncond_id |-> l.uncond_id_embeddings,
     true_cfg |-> a.true_cfg,
     timestep_to_start_cfg |-> a.timestep_to_start_cfg,
     neg_txt |-> IF l.use_true_cfg THEN l.inp_neg[1].txt ELSE None,
     neg_txt_ids |-> IF l.use_true_cfg THEN l.inp_neg[1].txt_ids ELSE None,
     neg_vec |-> IF l.use_true_cfg THEN l.inp_neg[1].vec ELSE None]

\* The arguments of the call denoise(flux_generator.model, **inp, ...).
DenoiseArgs(l, a, o) ==
    [img |-> l.inp[1].img, txt |-> l.inp[1].txt, txt_ids |-> l.inp[1].txt_ids,
     vec |-> l.inp[1].vec, timesteps |-> l.timesteps, guidance |-> o.guidance,
     id |-> l.id_embeddings, id_weight |-> a.id_weight,
     start_step |-> a.start_step, uncond_id |-> l.uncond_id_embeddings,
     true_cfg |-> a.true_cfg,
     timestep_to_start_cfg |-> a.timestep_to_start_cfg,
     neg_txt |-> IF l.use_true_cfg THEN l.inp_neg[1].txt ELSE None,
     neg_txt_ids |-> IF l.use_true_cfg THEN l.inp_neg[1].txt_ids ELSE None,
     neg_vec |-> IF l.use_true_cfg THEN l.inp_neg[1].vec ELSE None]

\* return img, str(opts.seed), flux_generator.pulid_model.debug_img_list
Response(fg, x, o) ==
    [img |-> Some(x), seed |-> Str(o.seed),
     debug |-> fg.pulid_model.debug_img_list]

\* The handles after a request with parameters a has gone through its first
\* n handle-changing statements, starting from handles fg.
EffectUpTo(fg, a, n) ==
    LET s1 == SetMaxLength(fg, a.max_sequence_length)
        s2 == IdEmbeddings(s1, a.id_image, UseTrueCfg(a.true_cfg)).fg
        s3 == LoadTextEncoders(s2)
        s4 == OffloadTextEncoders(s3)
        s5 == OffloadModel(s4, fg.device)
        s6 == OffloadDecoder(s5)
    IN  CASE n = 0 -> fg [] n = 1 -> s1 [] n = 2 -> s2 [] n = 3 -> s3
          [] n = 4 -> s4 [] n = 5 -> s5 [] OTHER -> s6

InFlight == {q \in Reqs : pc[q] # "idle"}

\* Entry up to use_true_cfg: a request arrives on the lowest free handler
\* thread. The T5 length is set first; int(seed) then raises or the options
\* are built and the seed resolved.
Begin(r, A) ==
    /\ pc[r] = "idle"
    /\ \A q \in Reqs : q < r => pc[q] # "idle"
    /\ Cardinality(InFlight) < limit
    /\ \E a \in A, d \in 0..MaxDraw :
        LET seed == IntOf(a.seed)
        IN  /\ flux_generator' = SetMaxLength(flux_generator, a.max_sequence_length)
            /\ params' = [params EXCEPT ![r] = a]
            /\ IF seed.ok
               THEN /\ pc' = [pc EXCEPT ![r] = "extract"]
                    /\ opts' = [opts EXCEPT ![r] =
                          [prompt |-> a.prompt, width |-> a.width,
                           height |-> a.height, num_steps |-> a.num_steps,
                           guidance |-> a.guidance,
                           seed |-> ResolveSeed(seed.val, d)]]
                    /\ loc' = [loc EXCEPT ![r] =
                          [LocIdle EXCEPT !.use_true_cfg = UseTrueCfg(a.true_cfg)]]
                    /\ hist' = [hist EXCEPT ![r] =
                          [HistIdle EXCEPT !.drawn =
                              IF seed.val = 0 - 1 THEN Some(d) ELSE None]]
               ELSE /\ pc' = [pc EXCEPT ![r] = "failed"]
                    /\ UNCHANGED <<opts, loc, hist>>
    /\ UNCHANGED <<args, limit, resp, shadow>>

\* The identity branch.
ExtractId(r) ==
    /\ pc[r] = "extract"
    /\ LET e == IdEmbeddings(flux_generator, params[r].id_image, loc[r].use_true_cfg)
       IN  /\ flux_generator' = e.fg
           /\ loc' = [loc EXCEPT ![r].id_embeddings = e.id_embeddings,
                                 ![r].uncond_id_embeddings = e.uncond_id_embeddings]
           /\ hist' = [hist EXCEPT ![r].cal_uncond = @ \o e.calls,
                                   ![r].produced = e.produced]
    /\ pc' = [pc EXCEPT ![r] = "noise"]
    /\ UNCHANGED <<args, limit, params, opts, resp, shadow>>

\* get_noise, get_schedule, and the first offload block.
PrepareInput(r) ==
    /\ pc[r] = "noise"
    /\ loc' = [loc EXCEPT
          ![r].x = get_noise(opts[r].height, opts[r].width,
                             flux_generator.device, opts[r].seed),
          ![r].timesteps = get_schedule(opts[r].num_steps)]
    /\ flux_generator' = LoadTextEncoders(flux_generator)
    /\ hist' = [hist EXCEPT
          ![r].get_noise = Append(@, opts[r].seed),
          ![r].relocs = IF flux_generator.offload THEN @ \cup {"text_encoders"} ELSE @]
    /\ pc' = [pc EXCEPT ![r] = "prepare"]
    /\ UNCHANGED <<args, limit, params, opts, resp, shadow>>

\* The one or two calls of prepare.
Prepare(r) ==
    /\ pc[r] = "prepare"
    /\ loc' = [loc EXCEPT
          ![r].inp = Some(prepare(flux_generator.t5, flux_generator.clip,
                                  loc[r].x, opts[r].prompt)),
          ![r].inp_neg = IF loc[r].use_true_cfg
                         THEN Some(prepare(flux_generator.t5, flux_generator.clip,
                                           loc[r].x, params[r].neg_prompt))
                         ELSE None]
    /\ hist' = [hist EXCEPT ![r].prepared =
          @ \o <<opts[r].prompt>>
            \o (IF loc[r].use_true_cfg THEN <<params[r].neg_prompt>> ELSE <<>>)]
    /\ pc' = [pc EXCEPT ![r] = "offload_te"]
    /\ UNCHANGED <<args, flux_generator, limit, params, opts, resp, shadow>>

\* The second offload block; denoise is entered with step index 0.
EnterDenoise(r) ==
    /\ pc[r] = "offload_te"
    /\ flux_generator' = OffloadTextEncoders(flux_generator)
    /\ hist' = [hist EXCEPT
          ![r].relocs = IF flux_generator.offload THEN @ \cup {"model"} ELSE @]
    /\ loc' = [loc EXCEPT ![r].i = 0]
    /\ pc' = [pc EXCEPT ![r] = "denoise"]
    /\ UNCHANGED <<args, limit, params, opts, resp, shadow>>

\* One iteration of the loop inside denoise.
DenoiseStep(r) ==
    /\ pc[r] = "denoise"
    /\ loc[r].i < Len(loc[r].timesteps) - 1
    /\ loc' = [loc EXCEPT
          ![r].x = DenoiseIteration(loc[r].x,
                                    DenoiseArgs(loc[r], params[r], opts[r]),
                                    loc[r].i),
          ![r].i = @ + 1]
    /\ UNCHANGED <<args, flux_generator, limit, pc, params, opts, resp, hist, shadow>>

\* denoise returns; the third offload block.
LeaveDenoise(r) ==
    /\ pc[r] = "denoise"
    /\ loc[r].i = Len(loc[r].timesteps) - 1
    /\ flux_generator' = OffloadModel(flux_generator, loc[r].x.device)
    /\ hist' = [hist EXCEPT
          ![r].relocs = IF flux_generator.offload THEN @ \cup {"decoder"} ELSE @]
    /\ pc' = [pc EXCEPT ![r] = "decode"]
    /\ UNCHANGED <<args, limit, params, opts, loc, resp, shadow>>

\* unpack and ae.decode.
Decode(r) ==
    /\ pc[r] = "decode"
    /\ loc' = [loc EXCEPT ![r].x = decode(loc[r].x, opts[r].height, opts[r].width)]
    /\ pc' = [pc EXCEPT ![r] = "ret"]
    /\ UNCHANGED <<args, flux_generator, limit, params, opts, resp, hist, shadow>>

\* The last offload block and the return statement.
Return(r) ==
    /\ pc[r] = "ret"
    /\ flux_generator' = OffloadDecoder(flux_generator)
    /\ hist' = [hist EXCEPT
          ![r].relocs = IF flux_generator.offload THEN @ \cup {"decoder_off"} ELSE @]
    /\ resp' = [resp EXCEPT ![r] = Response(flux_generator, loc[r].x, opts[r])]
    /\ shadow' = EffectUpTo(shadow, params[r], 6)
    /\ pc' = [pc EXCEPT ![r] = "done"]
    /\ UNCHANGED <<args, limit, params, opts, loc>>

\* A stage raises (identity extraction, conditioning, a denoiser evaluation,
\* decoding): nothing in generate_image catches it, the request ends there.
Fail(r) ==
    /\ \/ pc[r] \in {"extract", "prepare", "decode"}
       \/ pc[r] = "denoise" /\ loc[r].i < Len(loc[r].timesteps) - 1
    /\ pc' = [pc EXCEPT ![r] = "failed"]
    /\ UNCHANGED <<args, flux_generator, limit, params, opts, loc, resp, hist, shadow>>

\* The handler thread has handed the result (or the error) to the UI and is
\* free again; the frame of generate_image is gone.
Finish(r) ==
    /\ pc[r] \in {"done", "failed"}
    /\ pc' = [pc EXCEPT ![r] = "idle"]
    /\ params' = [params EXCEPT ![r] = ParamsIdle]
    /\ opts' = [opts EXCEPT ![r] = OptsIdle]
    /\ loc' = [loc EXCEPT ![r] = LocIdle]
    /\ resp' = [resp EXCEPT ![r] = RespIdle]
    /\ hist' = [hist EXCEPT ![r] = HistIdle]
    /\ UNCHANGED <<args, flux_generator, limit, shadow>>

\* ------------------------------------------------------- the specifications

InitRequests ==
    /\ pc = [r \in Reqs |-> "idle"]
    /\ params = [r \in Reqs |-> ParamsIdle]
    /\ opts = [r \in Reqs |-> OptsIdle]
    /\ loc = [r \in Reqs |-> LocIdle]
    /\ resp = [r \in Reqs |-> RespIdle]
    /\ hist = [r \in Reqs |-> HistIdle]

\* The program as written: flux_generator is constructed at import with
\* offload False, the command line is parsed, create_demo is called with
\* args.offload, and the server runs one request at a time.
Init ==
    /\ args \in [offload : BOOLEAN]
    /\ flux_generator = create_demo(FluxGenerator(FALSE), args, "flux-dev", CUDA,
                                    args.offload)
    /\ limit = 1
    /\ shadow = flux_generator
    /\ InitRequests

Steps(r) ==
    \/ ExtractId(r)
    \/ PrepareInput(r)
    \/ Prepare(r)
    \/ EnterDenoise(r)
    \/ DenoiseStep(r)
    \/ LeaveDenoise(r)
    \/ Decode(r)
    \/ Return(r)
    \/ Fail(r)
    \/ Finish(r)

Next == \E r \in Reqs : Begin(r, Requests) \/ Steps(r)

Spec == Init /\ [][Next]_vars

\* The generator constructed with either value of self.offload, one request
\* at a time.
InitOffload ==
    /\ \E o \in BOOLEAN :
          /\ args = [offload |-> o]
          /\ flux_generator = FluxGenerator(o)
    /\ limit = 1
    /\ shadow = flux_generator
    /\ InitRequests

NextOffload == \E r \in Reqs : Begin(r, PlacementRequests) \/ Steps(r)

SpecOffload == InitOffload /\ [][NextOffload]_vars

\* As SpecOffload, with a server that lets up to limit requests run at once.
InitConc ==
    /\ \E o \in BOOLEAN :
          /\ args = [offload |-> o]
          /\ flux_generator = FluxGenerator(o)
    /\ limit \in 1..MaxInFlight
    /\ shadow = flux_generator
    /\ InitRequests

NextConc == \E r \in Reqs : Begin(r, DefaultRequests) \/ Steps(r)

SpecConc == InitConc /\ [][NextConc]_vars

\* ------------------------------------------------------------------ claims

Active == {r \in Reqs : pc[r] \notin {"idle", "failed"}}

\* Whether request r has passed the given statement.
PastNoise(r) == pc[r] \in {"prepare", "offload_te", "denoise", "decode", "ret", "done"}

PastPrepare(r) == pc[r] \in {"offload_te", "denoise", "decode", "ret", "done"}

PastDenoise(r) == pc[r] \in {"decode", "ret", "done"}

\* The denoiser evaluations request r has made so far, in the order made.
StepsOf(r) ==
    IF pc[r] \in {"prepare", "offload_te", "denoise", "decode"} THEN loc[r].x.steps
    ELSE IF pc[r] \in {"ret", "done"} THEN loc[r].x.decoded.steps
    ELSE <<>>

\* The latent denoise returned to request r.
DenoisedOf(r) == IF pc[r] = "decode" THEN loc[r].x ELSE loc[r].x.decoded

\* C1: the seed is resolved once, before get_noise, and stays: it is the
\* drawn value when int(seed) is -1 (and only then is a value drawn), the
\* input value otherwise; get_noise is called once, with that value, and the
\* returned seed text is its decimal form (it reads back as that value).
C1_SeedResolvedOnceAndEchoed ==
    \A r \in Active :
        LET v == IntOf(params[r].seed).val
        IN  /\ IntOf(params[r].seed).ok
            /\ (v = 0 - 1) <=> (hist[r].drawn # None)
            /\ opts[r].seed = IF v = 0 - 1 THEN hist[r].drawn[1] ELSE v
            /\ hist[r].get_noise = IF PastNoise(r) THEN <<opts[r].seed>> ELSE <<>>
            /\ PastNoise(r) =>
                  (IF pc[r] \in {"ret", "done"}
                   THEN loc[r].x.decoded.seed ELSE loc[r].x.seed) = opts[r].seed
            /\ pc[r] = "done" =>
                  /\ resp[r].seed = Str(hist[r].get_noise[1])
                  /\ IntOf(resp[r].seed) = [ok |-> TRUE, val |-> hist[r].get_noise[1]]

\* A request with seed -1 has returned, echoing the value that was drawn.
C1_Witness ==
    \E r \in Reqs :
        /\ pc[r] = "done"
        /\ params[r].seed = <<"-", "1">>
        /\ hist[r].drawn = Some(1)
        /\ resp[r].seed = <<"1">>

\* C2: when |true_cfg - 1| <= 0.01 (990..1010 thousandths) the negative pass
\* never runs: no negative bundle, prepare called for the prompt alone, the
\* extractor never asked for an unconditional embedding, denoise called with
\* absent negative inputs, and every step's prediction is the positive one.
C2_NoNegativePassAtUnitCfg ==
    \A r \in Active :
        (params[r].true_cfg >= 990 /\ params[r].true_cfg <= 1010) =>
            /\ loc[r].inp_neg = None
            /\ hist[r].prepared = IF PastPrepare(r) THEN <<opts[r].prompt>> ELSE <<>>
            /\ \A k \in 1..Len(hist[r].cal_uncond) : ~hist[r].cal_uncond[k]
            /\ loc[r].uncond_id_embeddings = None
            /\ PastPrepare(r) =>
                  LET d == DenoiseArgs(loc[r], params[r], opts[r])
                  IN  d.neg_txt = None /\ d.neg_txt_ids = None /\ d.neg_vec = None
            /\ \A k \in 1..Len(StepsOf(r)) :
                  /\ StepsOf(r)[k].neg = None
                  /\ StepsOf(r)[k].pred.kind = "positive"
                  /\ StepsOf(r)[k].pred.pos = StepsOf(r)[k].pos

\* A request at true_cfg 0.990 with a negative prompt, a reference image and
\* timestep_to_start_cfg 0 has gone through all its steps and returned.
C2_Witness ==
    \E r \in Reqs :
        /\ pc[r] = "done"
        /\ params[r].true_cfg = 990
        /\ params[r].neg_prompt = "bad quality"
        /\ params[r].timestep_to_start_cfg = 0
        /\ params[r].id_image # None
        /\ hist[r].cal_uncond = <<FALSE>>
        /\ Len(StepsOf(r)) >= 2

\* The arguments denoise gets from a request with parameters a and resolved
\* seed sd that has no reference image, with start_step and id_weight
\* replaced by fixed values.
NoIdArgs(a, sd) ==
    LET x0 == get_noise(a.height, a.width, CUDA, sd)
        t5 == [device |-> CUDA, max_length |-> a.max_sequence_length]
        clip == [device |-> CUDA]
        p == prepare(t5, clip, x0, a.prompt)
        n == prepare(t5, clip, x0, a.neg_prompt)
        cfg == UseTrueCfg(a.true_cfg)
    IN  [img |-> p.img, txt |-> p.txt, txt_ids |-> p.txt_ids, vec |-> p.vec,
         timesteps |-> get_schedule(a.num_steps), guidance |-> a.guidance,
         id |-> None, id_weight |-> 0, start_step |-> 0, uncond_id |-> None,
         true_cfg |-> a.true_cfg,
         timestep_to_start_cfg |-> a.timestep_to_start_cfg,
         neg_txt |-> IF cfg THEN n.txt ELSE None,
         neg_txt_ids |-> IF cfg THEN n.txt_ids ELSE None,
         neg_vec |-> IF cfg THEN n.vec ELSE None]

RECURSIVE NoIdLatent(_, _, _)
NoIdLatent(a, sd, n) ==
    IF n = 0 THEN get_noise(a.height, a.width, CUDA, sd)
    ELSE DenoiseIteration(NoIdLatent(a, sd, n - 1), NoIdArgs(a, sd), n - 1)

\* C3: without a reference image the extractor is not invoked, both identity
\* embeddings given to denoise are absent, and the latent denoise returns is
\* the one computed from the other parameters alone (NoIdLatent reads neither
\* start_step nor id_weight), so requests differing only in those two agree.
C3_NoImageNoIdentity ==
    \A r \in Active :
        params[r].id_image = None =>
            /\ hist[r].cal_uncond = <<>>
            /\ loc[r].id_embeddings = None
            /\ loc[r].uncond_id_embeddings = None
            /\ PastPrepare(r) =>
                  LET d == DenoiseArgs(loc[r], params[r], opts[r])
                  IN  d.id = None /\ d.uncond_id = None
            /\ \A k \in 1..Len(StepsOf(r)) : StepsOf(r)[k].pos.id = None
            /\ PastDenoise(r) =>
                  DenoisedOf(r) = NoIdLatent(params[r], opts[r].seed, params[r].num_steps)

\* A request without a reference image, with start_step 1 and id_weight 2,
\* has been denoised over two steps under true CFG.
C3_Witness ==
    \E r \in Reqs :
        /\ pc[r] = "decode"
        /\ params[r].id_image = None
        /\ params[r].start_step = 1
        /\ params[r].id_weight = 2
        /\ params[r].true_cfg = 1011
        /\ Len(StepsOf(r)) = 2

\* C4: the loop takes the timestep pairs in schedule order, one per step
\* index, and the call at index i carries the identity embedding (with the
\* request's weight) exactly when i >= start_step and an embedding is present.
C4_IdentityFromStartStep ==
    \A r \in Active :
        PastNoise(r) =>
            /\ Len(loc[r].timesteps) = params[r].num_steps + 1
            /\ \A k \in 1..params[r].num_steps :
                  loc[r].timesteps[k] > loc[r].timesteps[k + 1]
            /\ Len(StepsOf(r)) = IF PastDenoise(r) THEN params[r].num_steps
                                 ELSE loc[r].i
            /\ \A k \in 1..Len(StepsOf(r)) :
                  LET st == StepsOf(r)[k]
                  IN  /\ st.i = k - 1
                      /\ st.t_curr = loc[r].timesteps[k]
                      /\ st.t_prev = loc[r].timesteps[k + 1]
                      /\ (st.pos.id # None) <=>
                            (k - 1 >= params[r].start_step /\ loc[r].id_embeddings # None)
                      /\ st.pos.id # None =>
                            st.pos.id = Some(<<loc[r].id_embeddings[1], params[r].id_weight>>)

\* A request with a reference image, two steps and start_step 1 has returned:
\* its first call went without the embedding, its second with it.
C4_Witness ==
    \E r \in Reqs :
        /\ pc[r] = "done"
        /\ params[r].id_image # None
        /\ params[r].start_step = 1
        /\ Len(StepsOf(r)) = 2
        /\ StepsOf(r)[1].pos.id = None
        /\ StepsOf(r)[2].pos.id # None

\* C5: under offload, whenever a request stands at conditioning the text
\* encoders are on the accelerator; at denoising the text encoders are on the
\* CPU and the denoiser on the accelerator; at decoding the denoiser is on
\* the CPU and the decoder on the accelerator.
C5_PlacementBeforeEachStage ==
    flux_generator.offload =>
        \A r \in Reqs :
            /\ pc[r] = "prepare" =>
                  /\ flux_generator.t5.device = CUDA
                  /\ flux_generator.clip.device = CUDA
            /\ pc[r] = "denoise" =>
                  /\ flux_generator.t5.device = CPU
                  /\ flux_generator.clip.device = CPU
                  /\ flux_generator.model.device = CUDA
            /\ pc[r] = "decode" =>
                  /\ flux_generator.model.device = CPU
                  /\ flux_generator.ae.decoder = CUDA

\* Under offload, a request stands at conditioning after an earlier request
\* has returned (which left the text encoders on the CPU).
C5_Witness ==
    /\ flux_generator.offload
    /\ shadow.t5.device = CPU
    /\ \E r \in Reqs : pc[r] = "prepare" /\ hist[r].relocs = {"text_encoders"}

\* Where each handle lives.
Placement(fg) ==
    [model |-> fg.model.device, encoder |-> fg.ae.encoder,
     decoder |-> fg.ae.decoder, t5 |-> fg.t5.device, clip |-> fg.clip.device,
     pulid_model |-> fg.pulid_model.device]

\* The generator with every device placement blanked.
PlacementErased(fg) ==
    [fg EXCEPT !.model.device = CPU, !.ae.encoder = CPU, !.ae.decoder = CPU,
               !.t5.device = CPU, !.clip.device = CPU,
               !.pulid_model.device = CPU]

\* The generator with, besides, the T5 length and the debug images blanked.
SettingsErased(fg) ==
    [PlacementErased(fg) EXCEPT !.t5.max_length = 0,
                                !.pulid_model.debug_img_list = <<>>]

\* C6 as claimed: a step changes nothing of the handles but their placement,
\* and nothing at all when offload is disabled.
C6_OnlyPlacementChanges ==
    [][/\ PlacementErased(flux_generator') = PlacementErased(flux_generator)
       /\ ~flux_generator.offload => flux_generator' = flux_generator]_vars

\* C6 as amended: a step changes nothing of the handles but their placement,
\* the T5 encoder's max_length and the extractor's debug image list; with
\* offload disabled no placement changes either.
C6_HandlesFrame ==
    [][/\ SettingsErased(flux_generator') = SettingsErased(flux_generator)
       /\ ~flux_generator.offload =>
             Placement(flux_generator') = Placement(flux_generator)]_vars

\* Under offload a request has returned, having changed the T5 length, the
\* debug images and (text encoders now on the CPU) the placement.
C6_Witness ==
    /\ flux_generator.offload
    /\ flux_generator.t5.max_length = 256
    /\ flux_generator.pulid_model.debug_img_list # <<>>
    /\ flux_generator.t5.device = CPU
    /\ \E r \in Reqs : pc[r] = "done"

\* How many handle-changing statements a request standing at p has executed
\* (a request that returned has been folded into shadow).
StageNo(p) ==
    CASE p = "extract" -> 1
      [] p = "noise" -> 2
      [] p \in {"prepare", "offload_te"} -> 3
      [] p = "denoise" -> 4
      [] p \in {"decode", "ret"} -> 5
      [] OTHER -> 0

\* The handles as request r would see them had no request ever failed.
ExpectedHandles(r) == EffectUpTo(shadow, params[r], StageNo(pc[r]))

\* The handles that occupy accelerator memory.
Resident(fg) ==
    {h \in {"model", "encoder", "decoder", "t5", "clip", "pulid_model"} :
        Placement(fg)[h] = CUDA}

\* C7: failed requests leave no trace: at every stage a request keeps on the
\* accelerator no handle it would not keep there had the failed requests
\* never been made, each stage finds the handle it reads as it would then
\* find it, and the request returns the debug images it would then return.
C7_FailedRequestLeavesNoTrace ==
    \A r \in Active :
        LET e == ExpectedHandles(r)
        IN  /\ Resident(flux_generator) \subseteq Resident(e)
            /\ pc[r] = "prepare" =>
                  flux_generator.t5 = e.t5 /\ flux_generator.clip = e.clip
            /\ pc[r] = "denoise" => flux_generator.model = e.model
            /\ pc[r] = "decode" => flux_generator.ae = e.ae
            /\ pc[r] = "done" => resp[r].debug = e.pulid_model.debug_img_list

\* C8: a request runs the four offload blocks when the program was started
\* with --offload, and none of them when it was not.
C8_OffloadOptionInEffect ==
    \A r \in Reqs :
        pc[r] = "done" =>
            hist[r].relocs = IF args.offload
                             THEN {"text_encoders", "model", "decoder", "decoder_off"}
                             ELSE {}

\* A stage of some request is reading a handle that is off the accelerator.
StageReadsMisplaced ==
    \E r \in Reqs :
        \/ /\ pc[r] = "prepare"
           /\ flux_generator.t5.device # CUDA \/ flux_generator.clip.device # CUDA
        \/ /\ pc[r] = "denoise"
           /\ loc[r].i < Len(loc[r].timesteps) - 1
           /\ flux_generator.model.device # CUDA
        \/ /\ pc[r] = "decode"
           /\ flux_generator.ae.decoder # CUDA

\* The text encoders and the denoiser are on the accelerator together.
BothResident ==
    /\ flux_generator.t5.device = CUDA
    /\ flux_generator.clip.device = CUDA
    /\ flux_generator.model.device = CUDA

C10_DebugImagesAreOwn ==
    \A r \in Reqs : pc[r] = "done" => resp[r].debug = hist[r].produced

====
